---- MODULE Spec2Model ----
(***************************************************************************)
(* WebGuard: the deterministic security score (services/geminiService.ts)  *)
(* and the scan orchestrator of the App component (handleStartScan,        *)
(* handleReset and the render gates of App.tsx).                           *)
(*                                                                         *)
(* One action of the orchestrator is one synchronous segment of            *)
(* handleStartScan between two awaits: React applies the state updates of  *)
(* a segment together, and another handler can only run at an await.       *)
(* Date.now() timestamps and the free-text fields of the collaborators'    *)
(* answers (summary, vulnerabilities, recommendations, dns, whois) are not *)
(* read by any branch of the code and are left out of the records.         *)
(***************************************************************************)
EXTENDS Integers, Sequences, FiniteSets, TLC

\* ------------------------------------------------------------------------
\* Bounds
\* ------------------------------------------------------------------------
\* longest open_ports list of a record given to the scoring function
MaxPorts == 2
\* longest open_ports list the Intelligence Source returns to a run
MaxScanPorts == 2
\* number of handleStartScan invocations in one session
MaxRuns == 2

\* ------------------------------------------------------------------------
\* Values
\* ------------------------------------------------------------------------
\* an optional value (T | null, or field?: T) is a sequence of length <= 1
None == <<>>
Some(x) == <<x>>
IsSome(o) == Len(o) = 1
Get(o) == o[1]

Max(a, b) == IF a >= b THEN a ELSE b

\* strings the code inspects character-wise are sequences of characters
LowerChar(c) ==
  CASE c = "U" -> "u"
    [] c = "N" -> "n"
    [] c = "K" -> "k"
    [] c = "O" -> "o"
    [] c = "W" -> "w"
    [] OTHER -> c

toLowerCase(s) == [i \in 1..Len(s) |-> LowerChar(s[i])]

StrUnknownLower == <<"u", "n", "k", "n", "o", "w", "n">>
StrUnknownCap == <<"U", "n", "k", "n", "o", "w", "n">>
StrNginx == <<"n", "g", "i", "n", "x">>
StrEmpty == <<>>

\* OpenPort.version?: string
VersionValues ==
  {None, Some(StrEmpty), Some(StrUnknownLower), Some(StrUnknownCap), Some(StrNginx)}

\* OpenPort.security_risk?: "undefined" is the absent field, "Severe" a
\* string outside the enum (the field is parsed from JSON, never validated)
KnownRisks == {"None", "Low", "Medium", "High", "Critical"}
RiskOrder == <<"None", "Low", "Medium", "High", "Critical">>
RiskValues == KnownRisks \cup {"undefined", "Severe"}

PortStates == {"open", "closed"}
\* RiskAnalysisResult.risk_level
RiskLevels == {"Secure", "Moderate", "Critical"}

OpenPort == [security_risk : RiskValues, version : VersionValues, state : PortStates]

SeqsUpTo(S, n) == UNION {[1..k -> S] : k \in 0..n}

Targets == {"a.com", "b.org"}

RawScanData(T, n) ==
  [target : T, open_ports : SeqsUpTo(OpenPort, n),
   traffic_anomalies_detected : BOOLEAN]

\* ------------------------------------------------------------------------
\* calculateSecurityScore
\* ------------------------------------------------------------------------
\* RiskPenalty with the penalties of Low and Medium exchanged
RiskPenaltyLowMediumSwapped(port) ==
  CASE port.security_risk = "Critical" -> 40
    [] port.security_risk = "High" -> 25
    [] port.security_risk = "Medium" -> 5
    [] port.security_risk = "Low" -> 15
    [] port.security_risk = "None" -> 2
    [] OTHER -> 0

\* RiskPenalty with the default branch falling into case 'None'
RiskPenaltyDefaultNone(port) ==
  CASE port.security_risk = "Critical" -> 40
    [] port.security_risk = "High" -> 25
    [] port.security_risk = "Medium" -> 15
    [] port.security_risk = "Low" -> 5
    [] OTHER -> 2

\* the switch on port.security_risk
RiskPenalty(port) ==
  CASE port.security_risk = "Critical" -> 40
    [] port.security_risk = "High" -> 25
    [] port.security_risk = "Medium" -> 15
    [] port.security_risk = "Low" -> 5
    [] port.security_risk = "None" -> 2
    [] OTHER -> 0

\* VersionDisclosed without the toLowerCase() call
VersionDisclosedCaseSensitive(port) ==
  /\ IsSome(port.version)
  /\ Get(port.version) # StrEmpty
  /\ Get(port.version) # StrUnknownLower

\* port.version && port.version.toLowerCase() !== 'unknown'
VersionDisclosed(port) ==
  /\ IsSome(port.version)
  /\ Get(port.version) # StrEmpty
  /\ toLowerCase(Get(port.version)) # StrUnknownLower

VersionPenalty(port) == IF VersionDisclosed(port) THEN 5 ELSE 0

\* the body of open_ports.forEach, accumulated left to right
RECURSIVE PortsPenalty(_)
PortsPenalty(ports) ==
  IF ports = <<>> THEN 0
  ELSE RiskPenalty(Head(ports)) + VersionPenalty(Head(ports)) + PortsPenalty(Tail(ports))

TotalPenalty(scanData) ==
  Len(scanData.open_ports) * 2
  + PortsPenalty(scanData.open_ports)
  + (IF scanData.traffic_anomalies_detected THEN 25 ELSE 0)

\* calculateSecurityScore without Math.max(0, ...)
calculateSecurityScoreNoFloor(scanData) == 100 - TotalPenalty(scanData)

calculateSecurityScore(scanData) == Max(0, 100 - TotalPenalty(scanData))

\* ------------------------------------------------------------------------
\* analyzeRisk
\* ------------------------------------------------------------------------
\* what the generateContent call of analyzeRisk can do: reject with a
\* message, answer without text, or answer with a JSON object that has its
\* own security_score and risk_level
FailMsgs == {"upstream error", ""}
ProposedScores == {0, 58, 100}

GenOutcome ==
  [kind : {"ok"}, security_score : ProposedScores, risk_level : RiskLevels, message : {""}]
  \cup [kind : {"empty"}, security_score : {0}, risk_level : {"Secure"}, message : {""}]
  \cup [kind : {"reject"}, security_score : {0}, risk_level : {"Secure"}, message : FailMsgs]

\* JSON.parse(response.text) as RiskAnalysisResult
ParsedResult(gen) == [security_score |-> gen.security_score, risk_level |-> gen.risk_level]

\* analyzeRiskValue without the assignment to result.security_score
analyzeRiskValueKeepProposed(scanData, gen) == ParsedResult(gen)

\* the value analyzeRisk returns: the parsed answer with security_score
\* forced to the calculated score
analyzeRiskValue(scanData, gen) ==
  LET calculatedScore == calculateSecurityScore(scanData)
  IN [ParsedResult(gen) EXCEPT !.security_score = calculatedScore]

\* the promise analyzeRisk settles with
analyzeRisk(scanData, gen) ==
  CASE gen.kind = "reject" ->
         [ok |-> FALSE, value |-> None, message |-> gen.message]
    [] gen.kind = "empty" ->
         [ok |-> FALSE, value |-> None, message |-> "Failed to generate risk analysis"]
    [] OTHER ->
         [ok |-> TRUE, value |-> Some(analyzeRiskValue(scanData, gen)), message |-> ""]

\* ------------------------------------------------------------------------
\* State
\* ------------------------------------------------------------------------
VARIABLES
  target,         \* useState('') : the input field
  appState,       \* useState<AppState>(AppState.IDLE)
  logs,           \* useState<LogEntry[]>([])
  scanData,       \* useState<RawScanData | null>(null)
  analysis,       \* useState<RiskAnalysisResult | null>(null)
  currentModule,  \* useState('')
  errorMsg,       \* useState<string | null>(null)
  history,        \* useState<ScanHistoryItem[]>([])
  runs,           \* the invocations of handleStartScan, in start order
  lastCall,       \* the handler or continuation that ran last
  profile,        \* the environment of the session: which inputs it offers
  probe           \* one call of a pure function: its input and its result

vars == <<target, appState, logs, scanData, analysis, currentModule, errorMsg,
          history, runs, lastCall, profile, probe>>

orchVars == <<target, appState, logs, scanData, analysis, currentModule,
              errorMsg, history, runs, lastCall, profile>>

AppState == {"IDLE", "SCANNING", "ANALYZING", "REPORTING", "ERROR"}

\* the state after the first render of App
AppInit ==
  /\ target = ""
  /\ appState = "IDLE"
  /\ logs = <<>>
  /\ scanData = None
  /\ analysis = None
  /\ currentModule = ""
  /\ errorMsg = None
  /\ history = <<>>
  /\ runs = <<>>
  /\ lastCall = "none"

OrchInit == AppInit /\ profile = "session"

SingleInit == AppInit /\ profile = "single"

EmptyRecord == [target |-> "a.com", open_ports |-> <<>>, traffic_anomalies_detected |-> FALSE]

NoProbe == [input |-> EmptyRecord, gen |-> None, score |-> None, result |-> None]

\* ------------------------------------------------------------------------
\* The scoring function on its own: every record up to MaxPorts findings
\* ------------------------------------------------------------------------
ScoreInputs == RawScanData({"a.com"}, MaxPorts)

ScoreInit ==
  /\ OrchInit
  /\ probe \in [input : ScoreInputs, gen : {None}, score : {None}, result : {None}]

CallCalculate ==
  /\ probe.score = None
  /\ probe' = [probe EXCEPT !.score = Some(calculateSecurityScore(probe.input))]
  /\ UNCHANGED orchVars

ScoreNext == CallCalculate

ScoreSpec == ScoreInit /\ [][ScoreNext]_vars

\* the same call on the records whose findings are all in state open and
\* carry one of the five tags or none, for the properties that compare the
\* scores of two records
OpenOnly ==
  [security_risk : KnownRisks \cup {"undefined"}, version : VersionValues, state : {"open"}]

MonoInputs ==
  [target : {"a.com"}, open_ports : SeqsUpTo(OpenOnly, MaxPorts),
   traffic_anomalies_detected : BOOLEAN]

MonoInit ==
  /\ OrchInit
  /\ probe \in [input : MonoInputs, gen : {None}, score : {None}, result : {None}]

MonoSpec == MonoInit /\ [][ScoreNext]_vars

\* ------------------------------------------------------------------------
\* analyzeRisk on its own: every record of MonoInputs and every outcome of
\* the generator
\* ------------------------------------------------------------------------
AnalyzeInit ==
  /\ OrchInit
  /\ probe \in [input : MonoInputs, gen : {None}, score : {None}, result : {None}]

CallAnalyzeRisk ==
  /\ probe.result = None
  /\ \E gen \in GenOutcome :
       probe' = [probe EXCEPT !.gen = Some(gen),
                              !.result = Some(analyzeRisk(probe.input, gen))]
  /\ UNCHANGED orchVars

AnalyzeNext == CallAnalyzeRisk

AnalyzeSpec == AnalyzeInit /\ [][AnalyzeNext]_vars

\* ------------------------------------------------------------------------
\* The orchestrator: App, handleStartScan, handleReset
\* ------------------------------------------------------------------------
\* The inputs of a session. Profile "session" is several runs that may
\* overlap (up to MaxRuns), over two records and two failures; profile
\* "single" is one run over every record up to MaxScanPorts findings and
\* every outcome of the collaborators.
RunLimit == IF profile = "single" THEN 1 ELSE MaxRuns

TypedTargets == IF profile = "single" THEN Targets ELSE {"a.com"}

ScanRisks == KnownRisks \cup {"undefined"}
\* the orchestrator reads of a finding its security_risk only (689-693)
ScanPort == [security_risk : ScanRisks, version : {None}, state : {"open"}]

ScanRecords ==
  [target : Targets, open_ports : SeqsUpTo(ScanPort, MaxScanPorts),
   traffic_anomalies_detected : BOOLEAN]

CleanRecord == [target |-> "a.com", open_ports |-> <<>>, traffic_anomalies_detected |-> FALSE]

CriticalRecord ==
  [target |-> "b.org",
   open_ports |-> <<[security_risk |-> "Critical", version |-> None, state |-> "open"]>>,
   traffic_anomalies_detected |-> TRUE]

Outcome(kind, data, message) == [kind |-> kind, data |-> data, message |-> message]

\* performRealTimeScan: rejects with a message, throws "Failed to parse scan
\* data" on an answer without text, or returns the parsed record
ScanOutcome ==
  IF profile = "single"
  THEN {Outcome("ok", d, "") : d \in ScanRecords}
       \cup {Outcome("empty", EmptyRecord, "")}
       \cup {Outcome("reject", EmptyRecord, m) : m \in FailMsgs}
  ELSE {Outcome("ok", CleanRecord, ""), Outcome("ok", CriticalRecord, ""),
        Outcome("reject", EmptyRecord, "upstream error")}

performRealTimeScan(out) ==
  CASE out.kind = "reject" -> [ok |-> FALSE, value |-> None, message |-> out.message]
    [] out.kind = "empty" -> [ok |-> FALSE, value |-> None, message |-> "Failed to parse scan data"]
    [] OTHER -> [ok |-> TRUE, value |-> Some(out.data), message |-> ""]

\* the generator outcomes the orchestrator is run against
OrchGenOutcome ==
  IF profile = "single"
  THEN {g \in GenOutcome : g.kind # "ok" \/ g.security_score # 58}
  ELSE {g \in GenOutcome : \/ (g.kind = "ok" /\ g.security_score = 100 /\ g.risk_level = "Secure")
                           \/ (g.kind = "reject" /\ g.message = "")}

\* The fields of a run beyond the closure (target, module) and the locals
\* (pc, rawData, riskResult) are records of what the invocation did:
\* emitted is the sequence of its addLog calls, scanCalls and genCalls count
\* its calls of performRealTimeScan and analyzeRisk, failure is the message of
\* the error its catch block received, historyAtStart is the history at the
\* time of the submit.

\* a log entry; run is the invocation of handleStartScan that appended it
Entry(r, module, message, type) ==
  [run |-> r, module |-> module, message |-> message, type |-> type]

toUpperCase(risk) == IF risk = "Critical" THEN "CRITICAL" ELSE "HIGH"

\* PortAlerts with the test for High left out
RECURSIVE PortAlertsCriticalOnly(_, _)
PortAlertsCriticalOnly(r, ports) ==
  IF ports = <<>> THEN <<>>
  ELSE (IF Head(ports).security_risk = "Critical"
        THEN <<Entry(r, "Data Collection",
                     <<"PORT OPEN - ", toUpperCase(Head(ports).security_risk), " RISK DETECTED">>,
                     "error")>>
        ELSE <<>>)
       \o PortAlertsCriticalOnly(r, Tail(ports))

\* rawData.open_ports.forEach(p => { if Critical or High: addLog(... 'error') })
RECURSIVE PortAlerts(_, _)
PortAlerts(r, ports) ==
  IF ports = <<>> THEN <<>>
  ELSE (IF Head(ports).security_risk = "Critical" \/ Head(ports).security_risk = "High"
        THEN <<Entry(r, "Data Collection",
                     <<"PORT OPEN - ", toUpperCase(Head(ports).security_risk), " RISK DETECTED">>,
                     "error")>>
        ELSE <<>>)
       \o PortAlerts(r, Tail(ports))

RunIds == 1..Len(runs)

\* the invocations that still have a continuation pending
InFlight == {r \in RunIds : runs[r].pc \notin {"done", "failed"}}

\* the session offers another submit of the form
MayStart == Len(runs) < RunLimit

\* the input field, shown while appState is IDLE
SetTarget(t) ==
  /\ appState = "IDLE"
  /\ target # t
  /\ target' = t
  /\ lastCall' = "setTarget"
  /\ UNCHANGED <<appState, logs, scanData, analysis, currentModule, errorMsg, history, runs, profile, probe>>

\* handleStartScan with the test of target placed after the setters
StartIgnoredAfterSetters ==
  /\ appState = "IDLE"
  /\ target = ""
  /\ lastCall' = "startIgnored"
  /\ appState' = "SCANNING"
  /\ logs' = <<>>
  /\ errorMsg' = None
  /\ scanData' = None
  /\ analysis' = None
  /\ UNCHANGED <<target, currentModule, history, runs, profile, probe>>

\* handleStartScan with an empty target: if (!target) return
StartIgnored ==
  /\ appState = "IDLE"
  /\ target = ""
  /\ lastCall' = "startIgnored"
  /\ UNCHANGED <<target, appState, logs, scanData, analysis, currentModule, errorMsg,
                 history, runs, profile, probe>>

\* StartScan without setScanData(null) and setAnalysis(null)
StartScanKeepsResult ==
  /\ appState = "IDLE"
  /\ target # ""
  /\ MayStart
  /\ lastCall' = "start"
  /\ LET r == Len(runs) + 1
         e == Entry(r, "Input Acquisition", <<"Targeting: ", target>>, "info")
     IN /\ appState' = "SCANNING"
        /\ logs' = <<e>>
        /\ errorMsg' = None
        /\ runs' = Append(runs, [pc |-> "resolve", target |-> target, module |-> currentModule,
                                 rawData |-> None, riskResult |-> None, emitted |-> <<e>>,
                                 scanCalls |-> 0, genCalls |-> 0, failure |-> None,
                                 historyAtStart |-> history])
  /\ UNCHANGED <<target, scanData, analysis, currentModule, history, profile, probe>>

\* handleStartScan up to its first await; the form is rendered only while
\* appState is IDLE
StartScan ==
  /\ appState = "IDLE"
  /\ target # ""
  /\ MayStart
  /\ lastCall' = "start"
  /\ LET r == Len(runs) + 1
         e == Entry(r, "Input Acquisition", <<"Targeting: ", target>>, "info")
     IN /\ appState' = "SCANNING"
        /\ logs' = <<e>>
        /\ errorMsg' = None
        /\ scanData' = None
        /\ analysis' = None
        /\ runs' = Append(runs, [pc |-> "resolve", target |-> target, module |-> currentModule,
                                 rawData |-> None, riskResult |-> None, emitted |-> <<e>>,
                                 scanCalls |-> 0, genCalls |-> 0, failure |-> None,
                                 historyAtStart |-> history])
  /\ UNCHANGED <<target, currentModule, history, profile, probe>>

\* after the 400 ms timer: up to the call of performRealTimeScan
Resolve(r) ==
  /\ runs[r].pc = "resolve"
  /\ lastCall' = "resolve"
  /\ currentModule' = "Data Collection"
  /\ logs' = logs \o
       << Entry(r, "Input Acquisition", <<"Host resolution confirmed.">>, "success"),
          Entry(r, "Data Collection", <<"Initializing Nmap Execution Engine...">>, "info"),
          Entry(r, "Data Collection", <<"Starting Nmap 7.94">>, "info"),
          Entry(r, "Data Collection", <<"Scanning for exposed ports and services...">>, "warning") >>
  /\ runs' = [runs EXCEPT ![r].pc = "scan", ![r].scanCalls = @ + 1,
                          ![r].emitted = @ \o
       << Entry(r, "Input Acquisition", <<"Host resolution confirmed.">>, "success"),
          Entry(r, "Data Collection", <<"Initializing Nmap Execution Engine...">>, "info"),
          Entry(r, "Data Collection", <<"Starting Nmap 7.94">>, "info"),
          Entry(r, "Data Collection", <<"Scanning for exposed ports and services...">>, "warning") >>]
  /\ UNCHANGED <<target, appState, scanData, analysis, errorMsg, history, profile, probe>>

\* the catch block with setErrorMsg("Scan failed.") whatever the error
CatchFixedMessage(r, message) ==
  LET e == Entry(r, runs[r].module, <<"FATAL: ", message>>, "error")
  IN /\ appState' = "ERROR"
     /\ errorMsg' = Some("Scan failed.")
     /\ logs' = Append(logs, e)
     /\ runs' = [runs EXCEPT ![r].pc = "failed", ![r].emitted = Append(@, e),
                             ![r].failure = Some(message)]
     /\ UNCHANGED <<target, scanData, analysis, currentModule, history, profile, probe>>

\* the catch block: currentModule is the value of the render in which the
\* handler was created, kept in the run as module
Catch(r, message) ==
  LET e == Entry(r, runs[r].module, <<"FATAL: ", message>>, "error")
  IN /\ appState' = "ERROR"
     /\ errorMsg' = Some(IF message = "" THEN "Scan failed." ELSE message)
     /\ logs' = Append(logs, e)
     /\ runs' = [runs EXCEPT ![r].pc = "failed", ![r].emitted = Append(@, e),
                             ![r].failure = Some(message)]
     /\ UNCHANGED <<target, scanData, analysis, currentModule, history, profile, probe>>

\* performRealTimeScan settles: the Data Collection entries, setScanData and
\* the start of Feature Extraction, or the catch block
ScanReturns(r) ==
  /\ runs[r].pc = "scan"
  /\ lastCall' = "scanSettled"
  /\ \E out \in ScanOutcome :
     LET res == performRealTimeScan(out)
     IN IF ~res.ok THEN Catch(r, res.message)
        ELSE LET rawData == Get(res.value)
                 es == << Entry(r, "Data Collection", <<"Nmap scan report for ", rawData.target>>, "success"),
                          Entry(r, "Data Collection", <<"Host is up. Latency: 0.04s.">>, "info"),
                          Entry(r, "Data Collection",
                                <<"Discovered ", ToString(Len(rawData.open_ports)),
                                  " open ports on ", rawData.target>>, "warning") >>
                       \o PortAlerts(r, rawData.open_ports)
                       \o << Entry(r, "Feature Extraction",
                                   <<"Running NSE (Nmap Scripting Engine) scripts...">>, "info") >>
             IN /\ scanData' = Some(rawData)
                /\ currentModule' = "Feature Extraction"
                /\ logs' = logs \o es
                /\ runs' = [runs EXCEPT ![r].pc = "extract", ![r].rawData = Some(rawData),
                                        ![r].emitted = @ \o es]
                /\ UNCHANGED <<target, appState, analysis, errorMsg, history, profile, probe>>

\* after the 600 ms timer: up to the call of analyzeRisk
Extract(r) ==
  /\ runs[r].pc = "extract"
  /\ lastCall' = "extract"
  /\ appState' = "ANALYZING"
  /\ currentModule' = "Risk Analysis"
  /\ LET es == << Entry(r, "Feature Extraction", <<"Analyzing service banners for CVEs...">>, "info"),
                  Entry(r, "Feature Extraction", <<"Detecting misconfigured services...">>, "info"),
                  Entry(r, "Risk Analysis",
                        <<"Correlating findings with National Vulnerability Database...">>, "info") >>
     IN /\ logs' = logs \o es
        /\ runs' = [runs EXCEPT ![r].pc = "analyze", ![r].genCalls = @ + 1,
                                ![r].emitted = @ \o es]
  /\ UNCHANGED <<target, scanData, analysis, errorMsg, history, profile, probe>>

\* the level as for a risk score: warning above 50, success otherwise
scoreLevelAsRisk(score) == IF score > 50 THEN "warning" ELSE "success"

\* riskResult.security_score < 50 ? 'error' : 'success'
scoreLevel(score) == IF score < 50 THEN "error" ELSE "success"

\* the item built from the scanData state where it is set, not from the
\* local rawData
newItemFromState(r, rawData, riskResult) ==
  LET shown == IF IsSome(scanData) THEN Get(scanData) ELSE rawData
  IN [run |-> r, target |-> shown.target,
      securityScore |-> calculateSecurityScore(shown),
      portCount |-> Len(shown.open_ports)]

\* the history item of run r, built from the locals rawData and riskResult
\* (id and timestamp, both Date.now(), are left out)
newItem(r, rawData, riskResult) ==
  [run |-> r, target |-> rawData.target,
   securityScore |-> riskResult.security_score,
   portCount |-> Len(rawData.open_ports)]

\* the updater with the new item placed after the previous ones
setHistoryAtEnd(item, prev) == Append(prev, item)

\* the updater passed to setHistory: prev => [item, ...prev]
setHistory(item, prev) == <<item>> \o prev

\* analyzeRisk settles: setAnalysis, the history item and the score entry,
\* or the catch block
AnalyzeReturns(r) ==
  /\ runs[r].pc = "analyze"
  /\ lastCall' = "analyzeSettled"
  /\ \E gen \in OrchGenOutcome :
     LET rawData == Get(runs[r].rawData)
         res == analyzeRisk(rawData, gen)
     IN IF ~res.ok THEN Catch(r, res.message)
        ELSE LET riskResult == Get(res.value)
                 e == Entry(r, "Risk Analysis",
                            <<"Calculated Security Score: ", ToString(riskResult.security_score), "/100">>,
                            scoreLevel(riskResult.security_score))
             IN /\ analysis' = Some(riskResult)
                /\ history' = setHistory(newItem(r, rawData, riskResult), history)
                /\ logs' = Append(logs, e)
                /\ runs' = [runs EXCEPT ![r].pc = "report", ![r].riskResult = Some(riskResult),
                                        ![r].emitted = Append(@, e)]
                /\ UNCHANGED <<target, appState, scanData, currentModule, errorMsg, profile, probe>>

\* the last segment without setAppState(REPORTING)
ReportKeepsState(r) ==
  /\ runs[r].pc = "report"
  /\ lastCall' = "report"
  /\ currentModule' = "Completed"
  /\ runs' = [runs EXCEPT ![r].pc = "done"]
  /\ UNCHANGED <<target, appState, logs, scanData, analysis, errorMsg, history, profile, probe>>

\* after the 500 ms timer
Report(r) ==
  /\ runs[r].pc = "report"
  /\ lastCall' = "report"
  /\ appState' = "REPORTING"
  /\ currentModule' = "Completed"
  /\ runs' = [runs EXCEPT ![r].pc = "done"]
  /\ UNCHANGED <<target, logs, scanData, analysis, errorMsg, history, profile, probe>>

\* handleReset with setHistory([]) added
handleResetClearsHistory ==
  /\ target' = ""
  /\ appState' = "IDLE"
  /\ logs' = <<>>
  /\ history' = <<>>
  /\ lastCall' = "reset"
  /\ UNCHANGED <<scanData, analysis, currentModule, errorMsg, runs, profile, probe>>

\* handleReset, bound to the logo of the navigation bar in every state
handleReset ==
  /\ target' = ""
  /\ appState' = "IDLE"
  /\ logs' = <<>>
  /\ lastCall' = "reset"
  /\ UNCHANGED <<scanData, analysis, currentModule, errorMsg, history, runs, profile, probe>>

Init == OrchInit /\ probe = NoProbe

Next ==
  \/ \E t \in TypedTargets \cup {""} : SetTarget(t)
  \/ StartIgnored
  \/ StartScan
  \/ \E r \in RunIds : Resolve(r)
  \/ \E r \in RunIds : ScanReturns(r)
  \/ \E r \in RunIds : Extract(r)
  \/ \E r \in RunIds : AnalyzeReturns(r)
  \/ \E r \in RunIds : Report(r)
  \/ handleReset

Spec == Init /\ [][Next]_vars

\* one run on its own, over the full input sets
RunInit == SingleInit /\ probe = NoProbe

RunSpec == RunInit /\ [][Next]_vars

\* the next segment of run r: a timer of 400, 600 or 500 ms fires, or a
\* collaborator call settles
RunStep(r) ==
  /\ r \in RunIds
  /\ Resolve(r) \/ ScanReturns(r) \/ Extract(r) \/ AnalyzeReturns(r) \/ Report(r)

\* every timer fires and every collaborator call returns or fails
Fairness == \A r \in 1..MaxRuns : WF_vars(RunStep(r))

FairSpec == Init /\ [][Next]_vars /\ Fairness

\* ========================================================================
\* Properties of the scoring function and of analyzeRisk
\* ========================================================================
Scored == IsSome(probe.score)
Score == Get(probe.score)
Ports == probe.input.open_ports

RECURSIVE SumSeq(_)
SumSeq(s) == IF s = <<>> THEN 0 ELSE Head(s) + SumSeq(Tail(s))

AllTagsKnown(r) == \A i \in 1..Len(r.open_ports) : r.open_ports[i].security_risk \in KnownRisks

\* the penalty table of the specification, for the five tags
TagPenalty(tag) ==
  CASE tag = "Critical" -> 40
    [] tag = "High" -> 25
    [] tag = "Medium" -> 15
    [] tag = "Low" -> 5
    [] tag = "None" -> 2

EqualsIgnoreCase(a, b) == toLowerCase(a) = toLowerCase(b)

\* "version is present and not case-insensitively equal to unknown"
VersionPresentNotUnknown(port) ==
  IsSome(port.version) /\ ~EqualsIgnoreCase(Get(port.version), StrUnknownLower)

\* the same, for a version that is also not the empty string
VersionNonEmptyNotUnknown(port) ==
  VersionPresentNotUnknown(port) /\ Get(port.version) # StrEmpty

\* P of the specification, with Counted(port) deciding the version surcharge
ClaimedPenalty(r, Counted(_)) ==
  2 * Len(r.open_ports)
  + SumSeq([i \in 1..Len(r.open_ports) |-> TagPenalty(r.open_ports[i].security_risk)])
  + 5 * Cardinality({i \in 1..Len(r.open_ports) : Counted(r.open_ports[i])})
  + (IF r.traffic_anomalies_detected THEN 25 ELSE 0)

\* C1: whatever the generator answers, a result returned by analyzeRisk
\* has security_score = calculateSecurityScore(record)
C1_ScoreOverwritten ==
  (IsSome(probe.result) /\ Get(probe.result).ok)
    => Get(Get(probe.result).value).security_score = calculateSecurityScore(probe.input)

\* analyzeRisk returned a result although the generator proposed another score
C1_Witness ==
  /\ IsSome(probe.result)
  /\ Get(probe.result).ok
  /\ Get(probe.gen).security_score # calculateSecurityScore(probe.input)
  /\ probe.input.open_ports # <<>>

\* C3 as stated: with the five tags, score = max(0, 100 - P), the version
\* surcharge counted for every present version that is not "unknown"
C3_AsStated ==
  (Scored /\ AllTagsKnown(probe.input))
    => Score = Max(0, 100 - ClaimedPenalty(probe.input, VersionPresentNotUnknown))

\* C3 amended: the same formula with the version surcharge counted for every
\* present, non-empty version that is not "unknown"
C3_ScoreFormula ==
  (Scored /\ AllTagsKnown(probe.input))
    => Score = Max(0, 100 - ClaimedPenalty(probe.input, VersionNonEmptyNotUnknown))

\* Critical with a disclosed version and Medium with version "Unknown":
\* P = 4 + 40 + 15 + 5 = 64
C3_Witness ==
  /\ Scored
  /\ Len(Ports) = 2
  /\ Ports[1].security_risk = "Critical" /\ Ports[1].version = Some(StrNginx)
  /\ Ports[2].security_risk = "Medium" /\ Ports[2].version = Some(StrUnknownCap)
  /\ ~probe.input.traffic_anomalies_detected
  /\ Score = 36

\* C4: the score is an integer between 0 and 100
C4_ScoreRange == Scored => (Score \in Int /\ 0 <= Score /\ Score <= 100)

\* a record whose penalties exceed 100 has been scored
C4_Witness == Scored /\ TotalPenalty(probe.input) > 100 /\ Score = 0

\* the changes of C5, applied to a record
InsertAt(s, i, x) == SubSeq(s, 1, i - 1) \o <<x>> \o SubSeq(s, i, Len(s))
WithPorts(r, ps) == [r EXCEPT !.open_ports = ps]
RankOf(tag) == CHOOSE k \in 1..5 : RiskOrder[k] = tag

AddedFinding(r) ==
  {WithPorts(r, InsertAt(r.open_ports, i, p)) : i \in {1, Len(r.open_ports) + 1}, p \in OpenOnly}

RaisedTag(r) ==
  {WithPorts(r, [r.open_ports EXCEPT ![i].security_risk = RiskOrder[k]]) :
     <<i, k>> \in {ik \in (1..Len(r.open_ports)) \X (1..5) :
                     /\ r.open_ports[ik[1]].security_risk \in KnownRisks
                     /\ ik[2] > RankOf(r.open_ports[ik[1]].security_risk)}}

VersionUnset(port) ==
  port.version = None \/ (IsSome(port.version) /\ Get(port.version) = StrUnknownLower)

PopulatedVersion(r) ==
  {WithPorts(r, [r.open_ports EXCEPT ![i].version = v]) :
     <<i, v>> \in {iv \in (1..Len(r.open_ports)) \X (VersionValues \ {None}) :
                     VersionUnset(r.open_ports[iv[1]])}}

AnomalyRaised(r) ==
  IF r.traffic_anomalies_detected THEN {}
  ELSE {[r EXCEPT !.traffic_anomalies_detected = TRUE]}

WorsenedRecords(r) == AddedFinding(r) \cup RaisedTag(r) \cup PopulatedVersion(r) \cup AnomalyRaised(r)

\* C5: adding a finding, raising a tag, populating a version or raising
\* the anomaly flag never increases the score
C5_Monotone ==
  Scored => \A r2 \in WorsenedRecords(probe.input) : calculateSecurityScore(r2) <= Score

\* a scored record that each of the four changes makes strictly worse
C5_Witness ==
  /\ Scored
  /\ \E r2 \in AddedFinding(probe.input) : calculateSecurityScore(r2) < Score
  /\ \E r2 \in RaisedTag(probe.input) : calculateSecurityScore(r2) < Score
  /\ \E r2 \in PopulatedVersion(probe.input) : calculateSecurityScore(r2) < Score
  /\ \E r2 \in AnomalyRaised(probe.input) : calculateSecurityScore(r2) < Score

\* the record with the tag of finding i replaced by None
TagSetToNone(r, i) == WithPorts(r, [r.open_ports EXCEPT ![i].security_risk = "None"])

Untagged(r) == {i \in 1..Len(r.open_ports) : r.open_ports[i].security_risk \notin KnownRisks}

\* C6 as stated: replacing an absent or unknown tag by None never changes
\* the score
C6_AsStated ==
  Scored => \A i \in Untagged(probe.input) :
              calculateSecurityScore(TagSetToNone(probe.input, i)) = Score

\* C6 amended: a finding with an absent or unknown tag gets no risk penalty,
\* 2 less than a finding tagged None, so replacing the tag by None lowers
\* the score by 2, down to the floor of 0
C6_UntaggedIsFree ==
  Scored => \A i \in Untagged(probe.input) :
              /\ RiskPenalty(Ports[i]) = 0
              /\ RiskPenalty(TagSetToNone(probe.input, i).open_ports[i]) = 2
              /\ calculateSecurityScore(TagSetToNone(probe.input, i)) = Max(0, Score - 2)

\* a scored record with an absent tag and one with an unknown tag
C6_Witness ==
  /\ Scored
  /\ Len(Ports) = 2
  /\ Ports[1].security_risk = "undefined"
  /\ Ports[2].security_risk = "Severe"
  /\ Score > 0

\* the record without its closed findings
RECURSIVE SelectSeqNotClosed(_)
SelectSeqNotClosed(ps) ==
  IF ps = <<>> THEN <<>>
  ELSE IF Head(ps).state = "closed" THEN SelectSeqNotClosed(Tail(ps))
       ELSE <<Head(ps)>> \o SelectSeqNotClosed(Tail(ps))

\* C7: removing every closed finding leaves the score unchanged
C7_ClosedIgnored ==
  Scored => calculateSecurityScore(WithPorts(probe.input, SelectSeqNotClosed(Ports))) = Score

\* ========================================================================
\* Properties of the orchestrator
\* ========================================================================
\* C2: whenever the state is Reporting, the stored result's score is the
\* score of the stored record
C2_ReportingScoreMatches ==
  (appState = "REPORTING" /\ IsSome(scanData) /\ IsSome(analysis))
    => Get(analysis).security_score = calculateSecurityScore(Get(scanData))

\* this step is an accepted start: a new invocation of handleStartScan
Started == Len(runs') = Len(runs) + 1

AllowedChange ==
  \/ appState' = "SCANNING" /\ Started
  \/ appState = "SCANNING" /\ appState' = "ANALYZING"
  \/ appState = "ANALYZING" /\ appState' = "REPORTING"
  \/ appState \in {"SCANNING", "ANALYZING"} /\ appState' = "ERROR"
  \/ appState' = "IDLE"

\* C8: the state only changes along Idle -> Scanning -> Analyzing ->
\* Reporting, to Error from Scanning or Analyzing, and to Idle
C8_OnlyAllowedChanges == [][appState' # appState => AllowedChange]_vars

\* C9: the record and the result are both stored in Reporting and both
\* absent in every other state
C9_BothOrNeither ==
  IF appState = "REPORTING"
  THEN IsSome(scanData) /\ IsSome(analysis)
  ELSE scanData = None /\ analysis = None

AcquisitionInfo(e, t) ==
  e.type = "info" /\ e.module = "Input Acquisition" /\ e.message = <<"Targeting: ", t>>

AcquisitionSuccess(e) == e.type = "success" /\ e.module = "Input Acquisition"

\* C10: an accepted start leaves state Scanning, no record, no result and
\* a log holding only the info entry of Input Acquisition that names the
\* target; the next entry the run appends is a success entry of Input
\* Acquisition
C10_AcceptedStart ==
  [][ /\ Started =>
           /\ target # ""
           /\ appState' = "SCANNING"
           /\ scanData' = None
           /\ analysis' = None
           /\ Len(logs') = 1
           /\ AcquisitionInfo(logs'[1], target)
           /\ runs'[Len(runs')].emitted = logs'
      /\ \A r \in RunIds :
           (Len(runs[r].emitted) = 1 /\ runs'[r].emitted # runs[r].emitted)
             => /\ AcquisitionInfo(runs'[r].emitted[1], runs[r].target)
                /\ AcquisitionSuccess(runs'[r].emitted[2]) ]_vars

\* a second run was accepted after a run that stored its record and result,
\* and has appended its second entry
C10_Witness ==
  /\ Len(runs) = 2
  /\ runs[1].pc = "done"
  /\ runs[2].pc = "scan"
  /\ appState = "SCANNING"
  /\ scanData = None /\ analysis = None
  /\ Len(logs) >= 2
  /\ AcquisitionInfo(logs[1], runs[2].target)
  /\ AcquisitionSuccess(logs[2])

\* the calls of performRealTimeScan and of analyzeRisk made so far, per run
Invocations == [r \in RunIds |-> <<runs[r].scanCalls, runs[r].genCalls>>]

\* what a caller of the orchestrator can observe
Observable == <<target, appState, logs, scanData, analysis, errorMsg, history>>

\* C11: a start with an empty target changes nothing: the state, the log, the
\* record, the result, the error message and the history stay as they were,
\* no run begins and no collaborator is called.
C11_EmptyStartChangesNothing ==
  [][lastCall' = "startIgnored" =>
       /\ UNCHANGED Observable
       /\ UNCHANGED currentModule
       /\ Len(runs') = Len(runs)
       /\ Invocations' = Invocations]_vars

\* an empty start arrived when a record, a result and a history item existed
C11_Witness ==
  /\ lastCall = "startIgnored"
  /\ IsSome(scanData)
  /\ IsSome(analysis)
  /\ history # <<>>

\* C12: a start with an empty target ends in an error the caller can observe:
\* the step enters ERROR, or sets an error message, or appends an error entry.
C12_EmptyStartReported ==
  [][(lastCall' = "startIgnored" /\ lastCall # "startIgnored") =>
       \/ appState' = "ERROR"
       \/ IsSome(errorMsg') /\ errorMsg' # errorMsg
       \/ Len(logs') > Len(logs) /\ logs'[Len(logs')].type = "error"]_vars

\* run r ends at the failure of its call of performRealTimeScan
ScanFails(r) == runs[r].pc = "scan" /\ runs'[r].pc = "failed"

\* run r has ended at the failure of its call of performRealTimeScan
FailedAtScan(r) == runs[r].pc = "failed" /\ runs[r].rawData = None

\* C13: when the Intelligence Source call of a run fails, the run ends in
\* ERROR with the record and the result both absent, and analyzeRisk is not
\* called for that run, then or later.
C13_ScanFailureLeavesNothing ==
  [][\A r \in RunIds :
       /\ ScanFails(r) =>
            /\ appState' = "ERROR"
            /\ scanData' = None
            /\ analysis' = None
            /\ runs'[r].genCalls = 0
       /\ FailedAtScan(r) => runs'[r].genCalls = 0]_vars

\* C14: reset() from any state leaves IDLE, an empty target, an empty log, no
\* record and no result.
C14_ResetClearsAll ==
  [][lastCall' = "reset" =>
       /\ appState' = "IDLE"
       /\ target' = ""
       /\ logs' = <<>>
       /\ scanData' = None
       /\ analysis' = None]_vars

\* C15: reset() leaves the session history as it was, from every state.
C15_ResetKeepsHistory == [][lastCall' = "reset" => history' = history]_vars

\* reset() was called with an item in the history while a run was still waiting
C15_Witness ==
  /\ lastCall = "reset"
  /\ history # <<>>
  /\ InFlight # {}

\* run r receives the result of analyzeRisk
GeneratorSucceeds(r) == runs[r].pc = "analyze" /\ runs'[r].pc = "report"

\* the runs whose call of analyzeRisk has succeeded
Succeeded == {r \in RunIds : runs[r].pc \in {"report", "done"}}

\* C16: the history changes only when the analyzeRisk call of a run succeeds,
\* and then by exactly one item of that run placed at index 0 in front of the
\* previous items, which keep their content and order; every other step leaves
\* it alone, so index 0 holds the item of the run that succeeded last and each
\* run that succeeded has exactly one item.
C16_HistoryPrepends ==
  [][ /\ \A r \in RunIds :
           GeneratorSucceeds(r) =>
             /\ Len(history') = Len(history) + 1
             /\ history'[1].run = r
             /\ Tail(history') = history
      /\ (\A r \in RunIds : ~GeneratorSucceeds(r)) => history' = history
      /\ Len(history') = Cardinality(Succeeded')
      /\ {history'[i].run : i \in 1..Len(history')} = Succeeded' ]_vars

\* a second run succeeded while the history held the item of an earlier one
C16_Witness ==
  /\ lastCall = "analyzeSettled"
  /\ Len(history) = 2
  /\ history[1].run # history[2].run

\* the phases of a run in their order, by the module that names each
PhaseRank(module) ==
  CASE module = "Input Acquisition"  -> 1
    [] module = "Data Collection"    -> 2
    [] module = "Feature Extraction" -> 3
    [] module = "Risk Analysis"      -> 4
    [] module = "Completed"          -> 5
    [] OTHER                         -> 0

\* the entries of run r that carry the name of a phase come phase by phase,
\* in the order of the phases
GroupedByPhase(r) ==
  \A i, j \in 1..Len(runs[r].emitted) :
    LET a == PhaseRank(runs[r].emitted[i].module)
        b == PhaseRank(runs[r].emitted[j].module)
    IN (i < j /\ a > 0 /\ b > 0) => a <= b

\* the entries of run r tagged with the given module
EntriesOf(r, module) == SelectSeq(runs[r].emitted, LAMBDA e : e.module = module)

\* C17: within a run the phases come in the order Acquisition, Collection,
\* Extraction, Analysis, Reporting: the log entries of the run are grouped by
\* phase in that order, performRealTimeScan is called only after the
\* Acquisition entries, analyzeRisk only after performRealTimeScan returned
\* its record, and the run reports only after analyzeRisk returned.
C17_PhaseOrder ==
  \A r \in RunIds :
    /\ GroupedByPhase(r)
    /\ runs[r].scanCalls > 0 => Len(EntriesOf(r, "Input Acquisition")) >= 2
    /\ runs[r].genCalls > 0 => runs[r].scanCalls > 0 /\ IsSome(runs[r].rawData)
    /\ runs[r].pc \in {"report", "done"} => runs[r].genCalls > 0 /\ IsSome(runs[r].riskResult)

\* the catch block of run r runs in this step
Fails(r) == runs[r].pc # "failed" /\ runs'[r].pc = "failed"

\* each collaborator is called at most once by run r, and not at all once the
\* run has failed
NoRetry(r) ==
  /\ runs'[r].scanCalls <= 1
  /\ runs'[r].genCalls <= 1
  /\ runs[r].pc = "failed" =>
       /\ runs'[r].scanCalls = runs[r].scanCalls
       /\ runs'[r].genCalls = runs[r].genCalls

\* C18 as stated: no collaborator is called twice by a run or called after a
\* failure of the run, and the error message shown in ERROR is the message of
\* the collaborator's failure, verbatim.
C18_AsStated ==
  [][\A r \in RunIds :
       /\ NoRetry(r)
       /\ Fails(r) => appState' = "ERROR" /\ errorMsg' = runs'[r].failure]_vars

\* C18 amended: as above, but the message shown is the failure's message only
\* when that message is not empty, and "Scan failed." when it is.
C18_NoRetryMessageOrDefault ==
  [][\A r \in RunIds :
       /\ NoRetry(r)
       /\ Fails(r) =>
            /\ appState' = "ERROR"
            /\ runs'[r].failure # Some("") => errorMsg' = runs'[r].failure
            /\ runs'[r].failure = Some("") => errorMsg' = Some("Scan failed.")]_vars

\* a run failed with a message that is shown as it came, after calling both
\* collaborators
C18_Witness ==
  /\ appState = "ERROR"
  /\ \E r \in RunIds :
       /\ runs[r].pc = "failed"
       /\ runs[r].genCalls = 1
       /\ runs[r].failure = errorMsg
       /\ errorMsg # Some("")

\* the states of a run under way
Running == {"SCANNING", "ANALYZING"}

\* run r has reached its outcome
Ended(r) == Len(runs) >= r /\ runs[r].pc \in {"done", "failed"}

\* run r reaches its outcome in this step, or has reached it before: the
\* outcome shows as REPORTING or ERROR when reached and is never replaced
OneOutcome(r) ==
  /\ (runs[r].pc = "report" /\ runs'[r].pc = "done") => appState' = "REPORTING"
  /\ Fails(r) => appState' = "ERROR"
  /\ runs[r].pc \in {"done", "failed"} => runs'[r].pc = runs[r].pc

\* C19 as stated: every accepted start reaches one outcome, REPORTING or
\* ERROR, and SCANNING or ANALYZING is never left for any other state.
C19_AsStated ==
  /\ \A r \in 1..MaxRuns : (Len(runs) >= r) ~> Ended(r)
  /\ [][/\ \A r \in RunIds : OneOutcome(r)
        /\ appState \in Running => appState' \in Running \cup {"REPORTING", "ERROR"}]_vars

\* C19 amended: as above, but SCANNING or ANALYZING is also left for IDLE,
\* by reset() and by nothing else.
C19_OutcomeOrReset ==
  /\ \A r \in 1..MaxRuns : (Len(runs) >= r) ~> Ended(r)
  /\ [][/\ \A r \in RunIds : OneOutcome(r)
        /\ appState \in Running =>
             \/ appState' \in Running \cup {"REPORTING", "ERROR"}
             \/ appState' = "IDLE" /\ lastCall' = "reset"]_vars

\* one run of the session ended in REPORTING and another in ERROR
C19_Witness ==
  \E r, q \in RunIds : runs[r].pc = "done" /\ runs[q].pc = "failed"

\* no entry of another run lies between two entries of one run
NotInterleaved(log) ==
  \A i, j, k \in 1..Len(log) :
    (i < j /\ j < k /\ log[i].run = log[k].run) => log[j].run = log[i].run

\* C20: at most one run is in flight: a start is accepted only in IDLE,
\* REPORTING or ERROR and only when no earlier run is still waiting, and the
\* log never holds the entries of two runs interleaved.
C20_OneRunInFlight ==
  [][/\ Started => appState \in {"IDLE", "REPORTING", "ERROR"} /\ InFlight = {}
     /\ Cardinality(InFlight') <= 1
     /\ NotInterleaved(logs')]_vars

\* the answers of the generator that analyzeRisk parses
OkAnswers == {g \in GenOutcome : g.kind = "ok"}

\* C21: the risk_level of a result is a function of its score alone, by an
\* ordered threshold table: it does not vary with the generator's answer for
\* the same score, and a score below 50 gives Critical.
C21_LevelFromScore ==
  (IsSome(probe.result) /\ Get(probe.result).ok) =>
    LET result == Get(Get(probe.result).value)
    IN /\ \A g \in OkAnswers :
            analyzeRiskValue(probe.input, g).security_score = result.security_score
              => analyzeRiskValue(probe.input, g).risk_level = result.risk_level
       /\ result.security_score < 50 => result.risk_level = "Critical"

\* C22: a run that fails, at performRealTimeScan or at analyzeRisk, ends in
\* ERROR with no result stored and with the history as it was when the run
\* started.
C22_FailureLeavesNoResult ==
  [][\A r \in RunIds :
       Fails(r) =>
         /\ appState' = "ERROR"
         /\ analysis' = None
         /\ history' = runs[r].historyAtStart]_vars

\* C23: every history item agrees with the run that produced it, also when
\* runs interleave: its score is calculateSecurityScore of the record that
\* performRealTimeScan returned to that run, and its portCount is the length
\* of that record's open_ports.
C23_ItemMatchesItsRun ==
  \A i \in 1..Len(history) :
    LET r == history[i].run
    IN /\ r \in RunIds
       /\ IsSome(runs[r].rawData)
       /\ history[i].securityScore = calculateSecurityScore(Get(runs[r].rawData))
       /\ history[i].portCount = Len(Get(runs[r].rawData).open_ports)

\* two runs with different records overlapped, and the one started first
\* produced its item last
C23_Witness ==
  /\ Len(history) = 2
  /\ history[1].run < history[2].run
  /\ history[1].securityScore # history[2].securityScore
  /\ history[1].portCount # history[2].portCount

\* run r receives the record of performRealTimeScan in this step
ScanSucceeds(r) == runs[r].pc = "scan" /\ runs'[r].pc = "extract"

\* the entries run r appends in this step
Appended(r) ==
  SubSeq(runs'[r].emitted, Len(runs[r].emitted) + 1, Len(runs'[r].emitted))

\* the findings tagged High or Critical, in the order of open_ports
Alerting(ports) ==
  SelectSeq(ports, LAMBDA p : p.security_risk \in {"High", "Critical"})

\* the port-count summary entry of a record
IsSummary(e, rawData) ==
  /\ e.type = "warning"
  /\ e.message = <<"Discovered ", ToString(Len(rawData.open_ports)),
                   " open ports on ", rawData.target>>

\* C24: after a successful performRealTimeScan call the run appends exactly
\* one error entry for each finding tagged High or Critical, in the order of
\* open_ports and after the port-count summary entry, and none for a finding
\* tagged None, Low, Medium or untagged.
C24_OneAlertPerRiskyPort ==
  [][\A r \in RunIds :
       ScanSucceeds(r) =>
         LET rawData == Get(runs'[r].rawData)
             new == Appended(r)
             errors == {i \in 1..Len(new) : new[i].type = "error"}
             alerts == SelectSeq(new, LAMBDA e : e.type = "error")
             risky == Alerting(rawData.open_ports)
         IN /\ Len(alerts) = Len(risky)
            /\ \A i \in 1..Len(alerts) :
                 /\ alerts[i].module = "Data Collection"
                 /\ alerts[i].message =
                      <<"PORT OPEN - ",
                        IF risky[i].security_risk = "High" THEN "HIGH" ELSE "CRITICAL",
                        " RISK DETECTED">>
            /\ \E k \in 1..Len(new) :
                 /\ IsSummary(new[k], rawData)
                 /\ \A i \in errors : k < i
            /\ SubSeq(logs', Len(logs) + 1, Len(logs')) = new]_vars

\* a record with a High finding, then a Critical one, then nothing more came
\* back to a run
C24_Witness ==
  \E r \in RunIds :
    /\ runs[r].pc = "extract"
    /\ Len(Get(runs[r].rawData).open_ports) = 2
    /\ Get(runs[r].rawData).open_ports[1].security_risk = "High"
    /\ Get(runs[r].rawData).open_ports[2].security_risk = "Critical"

\* the final-score entries among the entries es
ScoreEntries(es) ==
  SelectSeq(es, LAMBDA e : e.message[1] = "Calculated Security Score: ")

\* C25: a successful run appends exactly one final-score entry, in the
\* Analysis phase, at level error when the score is below 50 and success when
\* it is 50 or more; it is the last entry of the run, nothing being logged on
\* or after the transition to REPORTING.
C25_ScoreEntryIsLast ==
  [][\A r \in RunIds :
       /\ GeneratorSucceeds(r) =>
            LET score == calculateSecurityScore(Get(runs[r].rawData))
                new == Appended(r)
            IN /\ Len(new) = 1
               /\ new[1].module = "Risk Analysis"
               /\ new[1].message = <<"Calculated Security Score: ", ToString(score), "/100">>
               /\ score < 50 => new[1].type = "error"
               /\ score >= 50 => new[1].type = "success"
               /\ Len(ScoreEntries(runs[r].emitted)) = 0
               /\ logs' = Append(logs, new[1])
       /\ runs[r].pc \in {"report", "done"} =>
            /\ runs'[r].emitted = runs[r].emitted
            /\ Len(ScoreEntries(runs[r].emitted)) = 1
            /\ runs[r].emitted[Len(runs[r].emitted)].message[1] = "Calculated Security Score: "
       /\ (runs[r].pc = "report" /\ runs'[r].pc = "done") => logs' = logs]_vars

\* a run reported a score below 50, and its last entry is the error-level
\* score entry
C25_Witness ==
  \E r \in RunIds :
    /\ runs[r].pc = "done"
    /\ appState = "REPORTING"
    /\ Get(runs[r].riskResult).security_score < 50
    /\ runs[r].emitted[Len(runs[r].emitted)].type = "error"
    /\ logs[Len(logs)] = runs[r].emitted[Len(runs[r].emitted)]

\* run r has gone through Feature Extraction
Extracted(r) == runs[r].genCalls > 0

\* C26: in the Extraction phase a warning entry is appended if and only if
\* the record has its anomalies flag set.
C26_AnomalyWarning ==
  \A r \in RunIds :
    Extracted(r) =>
      ((\E i \in 1..Len(runs[r].emitted) :
          /\ runs[r].emitted[i].module = "Feature Extraction"
          /\ runs[r].emitted[i].type = "warning")
       <=> Get(runs[r].rawData).traffic_anomalies_detected)

\* C27: whenever the state is ERROR, the last log entry is an error entry
\* carrying the failure message.
C27_ErrorEntryIsLast ==
  appState = "ERROR" =>
    /\ logs # <<>>
    /\ logs[Len(logs)].type = "error"
    /\ \E r \in RunIds :
         /\ runs[r].pc = "failed"
         /\ logs[Len(logs)].message = <<"FATAL: ", Get(runs[r].failure)>>

\* nothing but edits of the target and ignored submits has happened since the
\* start of the session or the last reset()
SinceReset == lastCall \in {"none", "reset", "setTarget", "startIgnored"}

\* C28: after reset() and until the next accepted start the state stays IDLE,
\* the log stays empty, no record or result becomes stored and no history
\* item is added, also when the reset came while a run was waiting for a
\* collaborator.
C28_QuietAfterReset ==
  [][(SinceReset /\ ~Started) =>
       /\ appState' = "IDLE"
       /\ logs' = <<>>
       /\ scanData' = scanData
       /\ analysis' = analysis
       /\ history' = history]_vars

\* C29: the error entry appended when a run fails is tagged with the phase of
\* the failure: Data Collection when performRealTimeScan failed, Risk
\* Analysis when analyzeRisk failed, whatever earlier runs did.
C29_ErrorTaggedWithPhase ==
  [][\A r \in RunIds :
       Fails(r) =>
         LET new == Appended(r)
         IN /\ Len(new) = 1
            /\ new[1].type = "error"
            /\ runs[r].pc = "scan" => new[1].module = "Data Collection"
            /\ runs[r].pc = "analyze" => new[1].module = "Risk Analysis"]_vars

\* C30: the history item of a run carries the target that was submitted for
\* that run, whatever target the returned record names.
C30_ItemCarriesTypedTarget ==
  \A i \in 1..Len(history) : history[i].target = runs[history[i].run].target

====
